---- MODULE Spec2Model ----
(***************************************************************************)
(* PPO training script flatland_ppo_training_one_train_single_track.py:    *)
(* the rollout loop, the GAE backward pass, the minibatch update loop, the *)
(* learning-rate annealing (the __main__ block, lines 355-516) and the     *)
(* reward rule RailEnvTd.update_step_rewards (lines 181-210).              *)
(*                                                                         *)
(* Tensors are modelled by integer-valued functions: a (num_steps,         *)
(* num_agents) tensor is a function 0..num_steps-1 -> [Agents -> Int].     *)
(* gamma and gae_lambda are drawn from {0, 1}, for which the float         *)
(* arithmetic of the script is exact on the small integers used here.      *)
(* The learning rate is kept as a fraction num/den.                        *)
(***************************************************************************)
EXTENDS Integers, Sequences, FiniteSets, TLC

VARIABLES
    args,          \* the parsed command line (parse_args)
    placeholder,   \* the action value the network reads as "sample a new action"
    pc,            \* position of the script
    update,        \* loop variable of `for update in range(1, num_updates + 1)`
    step,          \* loop variable of `for step in range(0, args.num_steps)`
    env,           \* the rail environment: episode number, elapsed steps, ended,
                   \* and the number of step() calls so far
    next_obs,      \* the tensordict next_obs, a function from its keys
    rollout_data,  \* the rollout buffer
    theta,         \* the module's trainable parameters (a version number)
    lr,            \* optimizer.param_groups[0]["lr"], as num/den
    next_value,    \* bootstrap value
    advantages,
    returns,
    b_inds,        \* the shuffled timestep indices
    epoch,         \* loop variable of `for epoch in range(args.update_epochs)`
    start,         \* loop variable of `for start in range(0, batch_size, minibatch_size)`
    kl_exceeds,    \* approx_kl > args.target_kl, for the last minibatch evaluated
    mb_log,        \* history: the minibatch index sets of the current epoch, in order
    epochs_run,    \* history: epochs completed in the current update
    kl_seen,       \* history: an epoch of the current update ended with kl_exceeds
    env_log,       \* history: per slot, what the environment was shown and returned
    agent,         \* update_step_rewards: self.agents[i_agent] and the fields of self read
    reward,        \* update_step_rewards: the local variable reward, <<>> for None
    rpc,           \* update_step_rewards: not called, returned, or raised TypeError
    rewards_dict   \* update_step_rewards: self.rewards_dict[i_agent], before and after

tvars == <<args, placeholder, pc, update, step, env, next_obs, rollout_data, theta,
           lr, next_value, advantages, returns, b_inds, epoch, start, kl_exceeds,
           mb_log, epochs_run, kl_seen, env_log>>
rvars == <<agent, reward, rpc, rewards_dict>>
vars == <<tvars, rvars>>

----------------------------------------------------------------------------
(* Bounds of the model *)

MaxNumSteps == 2
MaxHorizon == 3
MaxNumEnvs == 2
MaxNumMinibatches == 2
MaxUpdateEpochs == 2
MaxUpdates == 2
MaxEpisodes == 2
MaxClock == 2

(* --num-agents *)
NumAgents == 2

Agents == 1..NumAgents


----------------------------------------------------------------------------
(* parse_args *)

batch_size(a) == a.num_envs * a.num_steps

minibatch_size(a) == batch_size(a) \div a.num_minibatches

num_updates(a) == a.total_timesteps \div batch_size(a)

Steps(a) == 0..(a.num_steps - 1)

(* The command lines of the model.  total_timesteps is a multiple of the   *)
(* batch size, so that num_updates ranges over us.                         *)
ArgsOf(es, ss, ms, ks, kls, ans, gs, ls, trs, us) ==
    { [num_envs |-> e, num_steps |-> s, num_minibatches |-> m, update_epochs |-> k,
       target_kl |-> kl, anneal_lr |-> an, gamma |-> g, gae_lambda |-> l,
       do_training |-> tr, learning_rate |-> 1, total_timesteps |-> u * e * s] :
      e \in es, s \in ss, m \in ms, k \in ks, kl \in kls,
      an \in ans, g \in gs, l \in ls, tr \in trs, u \in us }

----------------------------------------------------------------------------
(* The rail environment behind RailEnvTd.reset and RailEnvTd.step.  An     *)
(* observation is identified by the episode it belongs to and the number   *)
(* of steps elapsed in that episode.                                       *)

Observation(e) == [episode |-> e.episode, elapsed |-> e.elapsed]

ZeroObservation == [episode |-> 0, elapsed |-> 0]

(* the valid-action mask of an observation: a departure choice for the     *)
(* first agent at the start of an episode, a single legal action elsewhere *)
ValidActions(obs, a) == IF obs.elapsed = 0 /\ a = 1 THEN {2, 4} ELSE {2}

EnvReset(e) == [e EXCEPT !.episode = @ + 1, !.elapsed = 0, !.ended = FALSE]

(* the reward dict of one step, a non-positive delay per agent *)
EnvRewards(e, actions) ==
    [a \in Agents |-> 0 - ((e.elapsed + e.episode + actions[a] + a) % 3)]

EnvAdvance(e, d) == [e EXCEPT !.elapsed = @ + 1, !.ended = d, !.calls = @ + 1]

(* the values done["__all__"] can take for a step from e *)
EnvDone(e) == IF e.episode < MaxEpisodes THEN BOOLEAN ELSE {FALSE}

----------------------------------------------------------------------------
(* The policy/value module td_module: in_keys observations and actions,    *)
(* out_keys actions, logprobs, entropy, values.  The network behind it     *)
(* (solution.nn.net_tree.Network_td) samples an action over the            *)
(* valid-action mask when the action field it is given is a placeholder,   *)
(* and evaluates the given action otherwise.  The placeholder is all-ones  *)
(* by the design document; the rollout clears the field to zeros, so both  *)
(* conventions are explored (the variable placeholder).  Log-probability,  *)
(* entropy and value are fixed functions of the parameters, the            *)
(* observation and the action.                                             *)

Zeros == [a \in Agents |-> 0]

Ones == [a \in Agents |-> 1]

IsPlaceholder(act) == \A a \in Agents : act[a] = placeholder

ModuleActions(obs, act) ==
    IF IsPlaceholder(act)
    THEN { f \in [Agents -> {2, 4}] : \A a \in Agents : f[a] \in ValidActions(obs, a) }
    ELSE {act}

ModuleLogprobs(th, obs, act) ==
    [a \in Agents |-> 0 - (1 + ((th + obs.elapsed + act[a] + a) % 2))]

ModuleEntropy(th, obs) == (th + obs.elapsed) % 2

ModuleValues(th, obs) ==
    [a \in Agents |-> (th + obs.episode + 2 * obs.elapsed + a) % 3]

(* td_module(td): the rows the module can return for the input row td *)
td_module(th, td) ==
    { [td EXCEPT !["actions"] = act,
                 !["logprobs"] = ModuleLogprobs(th, td["observations"], act),
                 !["entropy"] = ModuleEntropy(th, td["observations"]),
                 !["values"] = ModuleValues(th, td["observations"])] :
      act \in ModuleActions(td["observations"], td["actions"]) }

----------------------------------------------------------------------------
(* The rollout buffer and the tensordict operations on it *)

(* lines 310-352: the storage, all zeros *)
InitialRolloutData(a) ==
    [observations |-> [t \in Steps(a) |-> ZeroObservation],
     actions      |-> [t \in Steps(a) |-> Zeros],
     logprobs     |-> [t \in Steps(a) |-> Zeros],
     entropy      |-> [t \in Steps(a) |-> 0],
     rewards      |-> [t \in Steps(a) |-> Zeros],
     done         |-> [t \in Steps(a) |-> FALSE],
     values       |-> [t \in Steps(a) |-> Zeros]]

(* rollout_data[t] and rollout_data[[t]]: the row of every field *)
Row(rd, t) == [k \in DOMAIN rd |-> rd[k][t]]

(* rollout_data[t].update_(td): the keys of td are written to slot t, the  *)
(* other fields keep their value                                          *)
UpdateSlot(rd, t, td) ==
    [k \in DOMAIN rd |-> IF k \in DOMAIN td THEN [rd[k] EXCEPT ![t] = td[k]] ELSE rd[k]]

(* torch.zeros_like(rollout_data['actions']) *)
ZeroActions(rd) == [rd EXCEPT !.actions = [t \in DOMAIN @ |-> Zeros]]

----------------------------------------------------------------------------
(* Learning-rate annealing, lines 364-367.  frac = 1.0 - (update - 1.0) /  *)
(* num_updates is kept as the fraction FracNum / num_updates.              *)

(* the fraction of the update after *)
FracNumAfter(u, n) == n - u

FracNum(u, n) == n - (u - 1)

lrnow(a, u) == [num |-> FracNum(u, num_updates(a)) * a.learning_rate,
                den |-> num_updates(a)]

----------------------------------------------------------------------------
(* The update loop header and the rollout loop, lines 362-388 *)

(* for update in range(1, num_updates + 1): anneal, clear the actions *)
UpdateStart ==
    /\ pc = "update_start"
    /\ lr' = IF args.anneal_lr THEN lrnow(args, update) ELSE lr
    /\ rollout_data' = ZeroActions(rollout_data)
    /\ step' = 0
    /\ pc' = "store"
    /\ UNCHANGED <<rvars, args, placeholder, update, env, next_obs, theta, next_value,
                   advantages, returns, b_inds, epoch, start, kl_exceeds, mb_log,
                   epochs_run, kl_seen, env_log>>

(* lines 371-374: rollout_data[step].update_(next_obs) *)
Store ==
    /\ pc = "store"
    /\ rollout_data' = UpdateSlot(rollout_data, step, next_obs)
    /\ pc' = "act"
    /\ UNCHANGED <<rvars, args, placeholder, update, step, env, next_obs, theta, lr, next_value,
                   advantages, returns, b_inds, epoch, start, kl_exceeds, mb_log,
                   epochs_run, kl_seen, env_log>>

(* lines 376-377: rollout_data[[step]] = td_module(rollout_data[[step]]) *)
Act ==
    /\ pc = "act"
    /\ \E out \in td_module(theta, Row(rollout_data, step)) :
          rollout_data' = UpdateSlot(rollout_data, step, out)
    /\ pc' = "env_step"
    /\ UNCHANGED <<rvars, args, placeholder, update, step, env, next_obs, theta, lr, next_value,
                   advantages, returns, b_inds, epoch, start, kl_exceeds, mb_log,
                   epochs_run, kl_seen, env_log>>

(* the rewards written one slot early *)
RewardSlotBefore(s) == IF s > 0 THEN s - 1 ELSE s

(* the slot that receives the rewards of the step taken at `step` *)
RewardSlot(s) == s

(* lines 379-380: next_obs, rewards = env.step(rollout_data[step]);        *)
(* rollout_data[step].update_(rewards)                                     *)
EnvStep ==
    /\ pc = "env_step"
    /\ \E d \in EnvDone(env) :
          /\ env' = EnvAdvance(env, d)
          /\ next_obs' = [observations |-> Observation(env'), done |-> d]
    /\ rollout_data' =
          UpdateSlot(rollout_data, RewardSlot(step),
                     [rewards |-> EnvRewards(env, rollout_data.actions[step])])
    /\ env_log' = [env_log EXCEPT ![step] =
                       [call |-> env.calls,
                        observations |-> Observation(env),
                        actions |-> rollout_data.actions[step],
                        rewards |-> EnvRewards(env, rollout_data.actions[step]),
                        done |-> env'.ended]]
    /\ pc' = "check_done"
    /\ UNCHANGED <<rvars, args, placeholder, update, step, theta, lr, next_value,
                   advantages, returns, b_inds, epoch, start, kl_exceeds, mb_log,
                   epochs_run, kl_seen>>

(* a loop that never resets *)
NeverReset(td) == FALSE

(* line 382: if next_obs['done'] *)
NeedsReset(td) == td.done

(* a reset that reports the new episode as not done, line 154 enabled *)
ResetOutputWithDone(e) == [observations |-> Observation(e), done |-> FALSE]

(* lines 150-155: the tensordict reset() returns holds 'observations'      *)
(* alone, the assignment of 'done' being commented out                     *)
ResetOutput(e) == [observations |-> Observation(e)]

(* td.update_(other): the keys of other are written into td *)
update_(td, other) ==
    [k \in DOMAIN td \cup DOMAIN other |-> IF k \in DOMAIN other THEN other[k] ELSE td[k]]

(* lines 382-383: next_obs.update_(env.reset()), which overwrites the key  *)
(* 'observations' alone; then the next iteration or the end of the horizon *)
CheckDone ==
    /\ pc = "check_done"
    /\ IF NeedsReset(next_obs)
       THEN /\ env' = EnvReset(env)
            /\ next_obs' = update_(next_obs, ResetOutput(env'))
       ELSE UNCHANGED <<env, next_obs>>
    /\ step' = step + 1
    /\ pc' = IF step + 1 < args.num_steps THEN "store" ELSE "bootstrap"
    /\ UNCHANGED <<rvars, args, placeholder, update, rollout_data, theta, lr, next_value,
                   advantages, returns, b_inds, epoch, start, kl_exceeds, mb_log,
                   epochs_run, kl_seen, env_log>>

----------------------------------------------------------------------------
(* Advantage computation, lines 396-423 *)

(* lines 396-397: next_obs['actions'] = torch.ones_like(...) *)
Bootstrap ==
    /\ pc = "bootstrap"
    /\ next_obs' = [k \in DOMAIN next_obs \cup {"actions"} |->
                       IF k = "actions" THEN Ones ELSE next_obs[k]]
    /\ pc' = "advantages"
    /\ UNCHANGED <<rvars, args, placeholder, update, step, env, rollout_data, theta, lr,
                   next_value, advantages, returns, b_inds, epoch, start, kl_exceeds,
                   mb_log, epochs_run, kl_seen, env_log>>

(* 1.0 - done.item() *)
NonTerminal(d) == IF d THEN 0 ELSE 1

(* the done flag of the slot itself in place of the next one's *)
nonterminal_of_slot(a, rd, td, t) == NonTerminal(rd.done[t])

(* lines 405-410 *)
nextnonterminal(a, rd, td, t) ==
    IF t = a.num_steps - 1 THEN NonTerminal(td.done) ELSE NonTerminal(rd.done[t + 1])

nextvalues(a, rd, nv, t) ==
    IF t = a.num_steps - 1 THEN nv ELSE rd.values[t + 1]

(* lines 411-415 *)
delta(a, rd, td, nv, t, ag) ==
    rd.rewards[t][ag]
    + a.gamma * nextvalues(a, rd, nv, t)[ag] * nextnonterminal(a, rd, td, t)
    - rd.values[t][ag]

(* lines 403-422: advantages[t] = lastgaelam, for t from num_steps - 1 down to 0 *)
RECURSIVE lastgaelam(_, _, _, _, _, _)
lastgaelam(a, rd, td, nv, t, ag) ==
    IF t = a.num_steps
    THEN 0
    ELSE delta(a, rd, td, nv, t, ag)
         + a.gamma * a.gae_lambda * nextnonterminal(a, rd, td, t)
           * lastgaelam(a, rd, td, nv, t + 1, ag)

(* returns built from the rewards *)
ReturnsFromRewards(a, adv, rd) ==
    [t \in Steps(a) |-> [ag \in Agents |-> adv[t][ag] + rd.rewards[t][ag]]]

(* line 423: returns = advantages + rollout_data["values"] *)
Returns(a, adv, rd) ==
    [t \in Steps(a) |-> [ag \in Agents |-> adv[t][ag] + rd.values[t][ag]]]

(* lines 399-423.  The module's outputs for next_obs.unsqueeze(0) land in  *)
(* the unsqueezed tensordict; the script keeps its "values" only.          *)
Advantages ==
    /\ pc = "advantages"
    /\ next_value' = ModuleValues(theta, next_obs.observations)
    /\ advantages' = [t \in Steps(args) |-> [ag \in Agents |->
                         lastgaelam(args, rollout_data, next_obs, next_value', t, ag)]]
    /\ returns' = Returns(args, advantages', rollout_data)
    /\ pc' = "update_loop"
    /\ UNCHANGED <<rvars, args, placeholder, update, step, env, next_obs, rollout_data, theta,
                   lr, b_inds, epoch, start, kl_exceeds, mb_log, epochs_run, kl_seen,
                   env_log>>

----------------------------------------------------------------------------
(* The policy update, lines 426-501 *)

(* np.arange(args.num_steps), as a sequence *)
arange(n) == [i \in 1..n |-> i - 1]

(* the arrays np.random.shuffle can leave in place of b *)
Shuffles(b) ==
    { [i \in DOMAIN b |-> b[p[i]]] :
      p \in { q \in [DOMAIN b -> DOMAIN b] : \A i, j \in DOMAIN b : q[i] = q[j] => i = j } }

(* a slice that takes its end index too *)
SliceThroughEnd(b, s, e) == { b[i + 1] : i \in { j \in s..e : j < Len(b) } }

(* b_inds[s:e], as the set of its elements *)
Slice(b, s, e) == { b[i + 1] : i \in { j \in s..(e - 1) : j < Len(b) } }

(* an update that never stops early *)
NeverStop(a, kl) == FALSE

(* lines 499-501 *)
EarlyStop(a, kl) == a.target_kl /= "None" /\ kl

(* the outputs written to the rows of the buffer itself *)
WrittenBack(rd, th, mb) ==
    [rd EXCEPT !.values = [t \in DOMAIN @ |->
                             IF t \in mb THEN ModuleValues(th, rd.observations[t]) ELSE @[t]]]

(* rollout_data after td_module(rollout_data[mb_inds]): indexing with an   *)
(* index array copies the rows, and the outputs are written to the copy    *)
AfterEvaluation(rd, th, mb) == rd

(* lines 426-427 *)
UpdateLoop ==
    /\ pc = "update_loop"
    /\ b_inds' = arange(args.num_steps)
    /\ epoch' = 0
    /\ epochs_run' = 0
    /\ kl_seen' = FALSE
    /\ mb_log' = <<>>
    /\ pc' = "epoch"
    /\ UNCHANGED <<rvars, args, placeholder, update, step, env, next_obs, rollout_data, theta,
                   lr, next_value, advantages, returns, start, kl_exceeds, env_log>>

(* lines 428-430: the next epoch shuffles and starts its range, which      *)
(* raises ValueError for a step of 0; after the last epoch, line 502       *)
Epoch ==
    /\ pc = "epoch"
    /\ IF epoch < args.update_epochs
       THEN /\ b_inds' \in Shuffles(b_inds)
            /\ start' = 0
            /\ mb_log' = <<>>
            /\ pc' = IF minibatch_size(args) = 0 THEN "ValueError" ELSE "minibatch"
       ELSE /\ pc' = "log"
            /\ UNCHANGED <<b_inds, start, mb_log>>
    /\ UNCHANGED <<rvars, args, placeholder, update, step, env, next_obs, rollout_data, theta,
                   lr, next_value, advantages, returns, epoch, kl_exceeds, epochs_run,
                   kl_seen, env_log>>

(* lines 430-496: one minibatch; approx_kl of an empty minibatch is nan,   *)
(* which exceeds no threshold                                              *)
Minibatch ==
    /\ pc = "minibatch"
    /\ start < batch_size(args)
    /\ LET mb_inds == Slice(b_inds, start, start + minibatch_size(args))
       IN  /\ rollout_data' = AfterEvaluation(rollout_data, theta, mb_inds)
           /\ kl_exceeds' \in (IF mb_inds = {} THEN {FALSE} ELSE BOOLEAN)
           /\ mb_log' = Append(mb_log, mb_inds)
    /\ theta' = IF args.do_training THEN theta + 1 ELSE theta
    /\ start' = start + minibatch_size(args)
    /\ UNCHANGED <<rvars, args, placeholder, pc, update, step, env, next_obs, lr, next_value,
                   advantages, returns, b_inds, epoch, epochs_run, kl_seen, env_log>>

(* lines 499-501, after the last minibatch of the epoch *)
EpochEnd ==
    /\ pc = "minibatch"
    /\ start >= batch_size(args)
    /\ epochs_run' = epochs_run + 1
    /\ kl_seen' = (args.target_kl /= "None" /\ kl_exceeds)
    /\ IF EarlyStop(args, kl_exceeds)
       THEN pc' = "log" /\ epoch' = epoch
       ELSE pc' = "epoch" /\ epoch' = epoch + 1
    /\ UNCHANGED <<rvars, args, placeholder, update, step, env, next_obs, rollout_data, theta,
                   lr, next_value, advantages, returns, b_inds, start, kl_exceeds, mb_log,
                   env_log>>

(* lines 502-514, then the next update; line 516 after the last one *)
Log ==
    /\ pc = "log"
    /\ update' = update + 1
    /\ pc' = IF update + 1 <= num_updates(args) THEN "update_start" ELSE "closed"
    /\ UNCHANGED <<rvars, args, placeholder, step, env, next_obs, rollout_data, theta, lr,
                   next_value, advantages, returns, b_inds, epoch, start, kl_exceeds,
                   mb_log, epochs_run, kl_seen, env_log>>

----------------------------------------------------------------------------
(* RailEnvTd.update_step_rewards, lines 181-210 *)

TrainState == {"WAITING", "READY_TO_DEPART", "MALFUNCTION_OFF_MAP",
               "MOVING", "STOPPED", "MALFUNCTION", "DONE"}

(* agent.state.is_off_map_state(), line 193 *)
is_off_map_state(st) == st \in {"WAITING", "READY_TO_DEPART", "MALFUNCTION_OFF_MAP"}

(* agent.state.is_on_map_state(), line 206 *)
is_on_map_state(st) == st \in {"MOVING", "STOPPED", "MALFUNCTION"}

min(x, y) == IF x <= y THEN x ELSE y

(* None, and a value that is not None *)
None == <<>>

Some(v) == <<v>>

(* the difference, not clamped at 0 *)
DoneRewardUnclamped(ag) == ag.latest_arrival - ag.arrival_time[1]

(* line 188 *)
DoneReward(ag) == min(ag.latest_arrival - ag.arrival_time[1], 0)

(* lines 194-203 *)
CancelledReward(ag) ==
    (0 - 1) * ag.cancellation_factor * (ag.travel_time + ag.cancellation_time_buffer)

(* the local variable reward at line 210: None (line 182), then the        *)
(* assignments of the branches taken, in order                             *)
StepReward(ag) ==
    IF ag.state = "DONE"
    THEN Some(DoneReward(ag))
    ELSE LET r1 == IF is_off_map_state(ag.state) THEN Some(CancelledReward(ag)) ELSE None
         IN  IF is_on_map_state(ag.state) THEN Some(ag.current_delay) ELSE r1

(* the agents and environment settings update_step_rewards is called on:   *)
(* arrival_time is set exactly for an agent that is DONE                   *)
AgentInputs ==
    { ag \in [state : TrainState, latest_arrival : 0..MaxClock,
              arrival_time : {None} \cup { Some(t) : t \in 0..MaxClock },
              travel_time : 0..MaxClock, current_delay : (0 - MaxClock)..MaxClock,
              cancellation_factor : 1..2, cancellation_time_buffer : 0..1] :
      (ag.state = "DONE") <=> (ag.arrival_time /= None) }

NoAgent ==
    [state |-> "WAITING", latest_arrival |-> 0, arrival_time |-> None, travel_time |-> 0,
     current_delay |-> 0, cancellation_factor |-> 1, cancellation_time_buffer |-> 0]

(* the call on self.agents[i_agent] = agent: self.rewards_dict[i_agent] += *)
(* reward, where adding None raises TypeError                              *)
update_step_rewards ==
    /\ rpc = "call"
    /\ reward' = StepReward(agent)
    /\ IF reward' = None
       THEN rpc' = "TypeError" /\ UNCHANGED rewards_dict
       ELSE rpc' = "returned"
            /\ rewards_dict' = [rewards_dict EXCEPT !.after = @ + reward'[1]]
    /\ UNCHANGED <<tvars, agent>>

RewardIdle ==
    /\ agent = NoAgent
    /\ reward = None
    /\ rpc = "idle"
    /\ rewards_dict = [before |-> 0, after |-> 0]

-----
(* The state at line 362: the buffer allocated, env.reset() called *)

InitialEnv == [episode |-> 1, elapsed |-> 0, ended |-> FALSE, calls |-> 0]

TrainingInit(configs, placeholders) ==
    /\ args \in configs
    /\ placeholder \in placeholders
    /\ pc = "update_start"
    /\ update = 1
    /\ step = 0
    /\ env = InitialEnv
    /\ next_obs = ResetOutput(InitialEnv)
    /\ rollout_data = InitialRolloutData(args)
    /\ theta = 0
    /\ lr = [num |-> args.learning_rate, den |-> 1]
    /\ next_value = Zeros
    /\ advantages = [t \in Steps(args) |-> Zeros]
    /\ returns = [t \in Steps(args) |-> Zeros]
    /\ b_inds = <<>>
    /\ epoch = 0
    /\ start = 0
    /\ kl_exceeds = FALSE
    /\ mb_log = <<>>
    /\ epochs_run = 0
    /\ kl_seen = FALSE
    /\ env_log = [t \in Steps(args) |->
                    [call |-> 0, observations |-> ZeroObservation, actions |-> Zeros,
                     rewards |-> Zeros]]

Next ==
    \/ UpdateStart \/ Store \/ Act \/ EnvStep \/ CheckDone
    \/ Bootstrap \/ Advantages
    \/ UpdateLoop \/ Epoch \/ Minibatch \/ EpochEnd \/ Log

(* The training run, over the rollout, advantage and annealing settings *)
Init ==
    /\ TrainingInit(ArgsOf({1}, 1..MaxNumSteps, {1}, {1}, {"None"}, BOOLEAN,
                           {0, 1}, {0, 1}, BOOLEAN, 1..MaxUpdates), {0, 1})
    /\ RewardIdle

Spec == Init /\ [][Next]_vars

(* The training run, over the settings of the policy update *)
InitUpdate ==
    /\ TrainingInit(ArgsOf(1..MaxNumEnvs, 1..MaxNumSteps, 1..MaxNumMinibatches,
                           1..MaxUpdateEpochs, {"None", "set"}, {TRUE}, {1}, {1},
                           {TRUE}, 1..MaxUpdates), {1})
    /\ RewardIdle

SpecUpdate == InitUpdate /\ [][Next]_vars

(* One update, over the horizons and minibatch counts *)
InitPartition ==
    /\ TrainingInit(ArgsOf(1..MaxNumEnvs, 1..MaxHorizon, 1..MaxNumMinibatches,
                           1..MaxUpdateEpochs, {"None"}, {TRUE}, {1}, {1}, {TRUE}, {1}),
                    {1})
    /\ RewardIdle

SpecPartition == InitPartition /\ [][Next]_vars

(* Calls of update_step_rewards on the agents of AgentInputs *)
NextReward == update_step_rewards

InitReward ==
    /\ TrainingInit(ArgsOf({1}, {1}, {1}, {1}, {"None"}, {TRUE}, {1}, {1}, {TRUE}, {1}),
                    {1})
    /\ agent \in AgentInputs
    /\ reward = None
    /\ rpc = "call"
    /\ \E r0 \in (0 - 1)..0 : rewards_dict = [before |-> r0, after |-> r0]

SpecReward == InitReward /\ [][NextReward]_vars

----------------------------------------------------------------------------
(* C1: env.step() is never called on an environment whose episode has      *)
(* ended: whenever the script is about to call env.step, the last done     *)
(* flag the environment returned has been followed by env.reset().         *)
StepOnlyOnRunningEpisode == pc = "env_step" => ~env.ended

(* the first step of a later horizon, taken right after the reset that     *)
(* followed a done at the last step of the horizon before                  *)
C1_Witness ==
    /\ pc = "env_step"
    /\ update >= 2
    /\ step = 0
    /\ env.episode >= 2
    /\ env.elapsed = 0
    /\ next_obs.done

----------------------------------------------------------------------------
(* C2: once a horizon has been collected, every slot t holds the           *)
(* observation the environment presented before its t-th step of this      *)
(* horizon, the module's outputs for that observation, the actions that    *)
(* step executed and the rewards that step returned.                       *)
HorizonCollected == pc \in {"bootstrap", "advantages", "update_loop"}

SlotsAligned ==
    HorizonCollected =>
        \A t \in Steps(args) :
            /\ env_log[t].call = (update - 1) * args.num_steps + t
            /\ rollout_data.observations[t] = env_log[t].observations
            /\ rollout_data.actions[t] = env_log[t].actions
            /\ rollout_data.rewards[t] = env_log[t].rewards
            /\ rollout_data.values[t] = ModuleValues(theta, rollout_data.observations[t])
            /\ rollout_data.logprobs[t] =
                  ModuleLogprobs(theta, rollout_data.observations[t], rollout_data.actions[t])
            /\ rollout_data.entropy[t] = ModuleEntropy(theta, rollout_data.observations[t])

(* a second horizon, collected with parameters the first update changed,   *)
(* whose slots differ in their rewards                                     *)
C2_Witness ==
    /\ pc = "bootstrap"
    /\ update >= 2
    /\ theta > 0
    /\ args.num_steps >= 2
    /\ rollout_data.rewards[0] /= rollout_data.rewards[1]
    /\ rollout_data.done[1]

----------------------------------------------------------------------------
(* C5: after the advantage computation of an update, and until the next    *)
(* horizon is collected, returns[t][a] = advantages[t][a] + values[t][a]   *)
(* for every timestep t and agent a, values being the buffer's field.      *)
AfterAdvantages == pc \in {"update_loop", "epoch", "minibatch", "log", "ValueError"}

ReturnsAreAdvantagesPlusValues ==
    AfterAdvantages =>
        \A t \in Steps(args), a \in Agents :
            returns[t][a] = advantages[t][a] + rollout_data.values[t][a]

C5_Witness ==
    /\ pc = "minibatch"
    /\ update >= 2
    /\ \E t \in Steps(args), a \in Agents :
          /\ advantages[t][a] /= 0
          /\ rollout_data.values[t][a] /= 0
          /\ rollout_data.rewards[t][a] /= rollout_data.values[t][a]

----------------------------------------------------------------------------
(* C6: with gamma = 1 and lambda = 1 the advantage of (t, a) is the sum of *)
(* the rewards from t to the end of the episode segment containing t, plus *)
(* the bootstrap value when no done flag cuts the segment, minus           *)
(* values[t][a].  A segment is cut after slot k when done[k + 1] is set    *)
(* (the bootstrap done for k = num_steps - 1).                             *)
CutAfter(k) ==
    IF k = args.num_steps - 1 THEN next_obs.done ELSE rollout_data.done[k + 1]

SegmentEnd(t) ==
    CHOOSE k \in t..(args.num_steps - 1) :
        /\ CutAfter(k) \/ k = args.num_steps - 1
        /\ \A j \in t..(k - 1) : ~CutAfter(j)

RECURSIVE RewardSum(_, _, _)
RewardSum(from, to, a) ==
    IF from > to THEN 0 ELSE rollout_data.rewards[from][a] + RewardSum(from + 1, to, a)

MonteCarloAdvantage(t, a) ==
    RewardSum(t, SegmentEnd(t), a)
    + (IF CutAfter(SegmentEnd(t)) THEN 0 ELSE next_value[a])
    - rollout_data.values[t][a]

GaeIsMonteCarlo ==
    (AfterAdvantages /\ args.gamma = 1 /\ args.gae_lambda = 1) =>
        \A t \in Steps(args), a \in Agents : advantages[t][a] = MonteCarloAdvantage(t, a)

(* a horizon of two slots cut between them, bootstrapped at its end *)
C6_Witness ==
    /\ pc = "update_loop"
    /\ args.gamma = 1
    /\ args.gae_lambda = 1
    /\ args.num_steps >= 2
    /\ rollout_data.done[1]
    /\ ~next_obs.done
    /\ \E a \in Agents : next_value[a] /= 0 /\ rollout_data.rewards[1][a] /= 0

----------------------------------------------------------------------------
(* C10, as amended: with annealing, the rate of update u out of N is       *)
(* (N - u + 1) / N of the initial rate: the initial rate at the first      *)
(* update, lower by initial / N at each further update, and initial / N,   *)
(* not zero, at the last update.                                           *)
InUpdate == pc \notin {"update_start", "closed"}

LrAnnealedToOneNth ==
    (args.anneal_lr /\ InUpdate) =>
        /\ lr.den = num_updates(args)
        /\ lr.num = (num_updates(args) - update + 1) * args.learning_rate
        /\ (update = 1 => lr.num = args.learning_rate * lr.den)
        /\ (update = num_updates(args) => lr.num = args.learning_rate)

(* C10 as stated: the first update uses the initial rate and the last      *)
(* update uses rate zero.                                                  *)
LrAnnealedToZero ==
    (args.anneal_lr /\ InUpdate) =>
        /\ (update = 1 => lr.num = args.learning_rate * lr.den)
        /\ (update = num_updates(args) => lr.num = 0)

(* the last of several updates *)
C10_Witness ==
    /\ args.anneal_lr
    /\ pc = "store"
    /\ num_updates(args) >= 2
    /\ update = num_updates(args)

----------------------------------------------------------------------------
(* C3: the minibatches of an epoch are pairwise disjoint, and once the     *)
(* epoch's range is exhausted their union is 0..num_steps-1; with one      *)
(* environment and num_minibatches = num_steps each holds one index, as    *)
(* minibatch_size is 1 for num_steps = 20, num_minibatches = 20.           *)
EpochComplete == pc = "minibatch" /\ start >= batch_size(args)

MinibatchesPartitionHorizon ==
    /\ pc = "minibatch" =>
          \A i, j \in 1..Len(mb_log) : i /= j => mb_log[i] \cap mb_log[j] = {}
    /\ EpochComplete => UNION { mb_log[i] : i \in 1..Len(mb_log) } = Steps(args)
    /\ (pc = "minibatch" /\ args.num_envs = 1 /\ args.num_minibatches = args.num_steps) =>
          \A i \in 1..Len(mb_log) : Cardinality(mb_log[i]) = 1
    /\ minibatch_size([num_envs |-> 1, num_steps |-> 20, num_minibatches |-> 20]) = 1

(* the end of a later epoch of three minibatches, shuffled out of order *)
C3_Witness ==
    /\ EpochComplete
    /\ epoch >= 1
    /\ Len(mb_log) = 3
    /\ b_inds /= arange(args.num_steps)
    /\ \A i \in 1..Len(mb_log) : mb_log[i] /= {}

----------------------------------------------------------------------------
(* C4: for num_steps >= 1, num_envs >= 1 and 1 <= num_minibatches <=       *)
(* num_steps, an epoch processes exactly num_minibatches minibatches, each *)
(* of them non-empty.                                                      *)
Accepted(a) ==
    a.num_steps >= 1 /\ a.num_envs >= 1 /\ 1 <= a.num_minibatches
    /\ a.num_minibatches <= a.num_steps

EpochProcessesNumMinibatches ==
    (EpochComplete /\ Accepted(args)) =>
        /\ Len(mb_log) = args.num_minibatches
        /\ \A i \in 1..Len(mb_log) : mb_log[i] /= {}

----------------------------------------------------------------------------
(* C7: a call of update_step_rewards returns, with exactly one reward      *)
(* branch taken, chosen by the agent's state: DONE gives                   *)
(* min(latest_arrival - arrival_time, 0), an off-map state gives           *)
(* -(cancellation_factor * (travel time + cancellation_time_buffer)), an   *)
(* on-map state gives the current delay; that value, never None, is added  *)
(* to the agent's entry of rewards_dict.                                   *)
BranchesTaken(st) ==
    { b \in {"done", "off_map", "on_map"} :
        \/ b = "done" /\ st = "DONE"
        \/ b = "off_map" /\ st /= "DONE" /\ is_off_map_state(st)
        \/ b = "on_map" /\ st /= "DONE" /\ is_on_map_state(st) }

DoneAgent(latest, arrival) ==
    [NoAgent EXCEPT !.state = "DONE", !.latest_arrival = latest,
                    !.arrival_time = Some(arrival)]

OneRewardBranch ==
    /\ rpc /= "TypeError"
    /\ rpc = "returned" =>
          /\ reward /= None
          /\ Cardinality(BranchesTaken(agent.state)) = 1
          /\ agent.state = "DONE" =>
                reward[1] = (IF agent.arrival_time[1] > agent.latest_arrival
                             THEN agent.latest_arrival - agent.arrival_time[1] ELSE 0)
          /\ agent.state \in {"WAITING", "READY_TO_DEPART", "MALFUNCTION_OFF_MAP"} =>
                reward[1] = 0 - agent.cancellation_factor
                                * (agent.travel_time + agent.cancellation_time_buffer)
          /\ agent.state \in {"MOVING", "STOPPED", "MALFUNCTION"} =>
                reward[1] = agent.current_delay
          /\ rewards_dict.after = rewards_dict.before + reward[1]
    /\ StepReward(DoneAgent(90, 100)) = Some(0 - 10)
    /\ StepReward(DoneAgent(90, 80)) = Some(0)

(* an agent that arrived early: the branch value 0 leaves the entry as it was *)
C7_Witness ==
    /\ rpc = "returned"
    /\ agent.state = "DONE"
    /\ agent.arrival_time[1] < agent.latest_arrival
    /\ reward = Some(0)
    /\ rewards_dict.after = rewards_dict.before

----------------------------------------------------------------------------
(* C8: the steps of the policy update (lines 426-501) leave the rollout    *)
(* buffer, the advantages and the returns as they were, and with them the  *)
(* environment, next_obs, the bootstrap value and the learning rate.       *)
InPolicyUpdate == pc \in {"update_loop", "epoch", "minibatch"}

UpdateLeavesBufferAlone ==
    [][InPolicyUpdate =>
          UNCHANGED <<rollout_data, advantages, returns, env, next_obs, next_value, lr>>]_vars

(* the end of an update that changed the parameters, the buffer still      *)
(* holding the values of the parameters it was collected with              *)
C8_Witness ==
    /\ pc = "log"
    /\ theta >= 2
    /\ epochs_run >= 2
    /\ \E t \in Steps(args) :
          rollout_data.values[t] /= ModuleValues(theta, rollout_data.observations[t])

----------------------------------------------------------------------------
(* C9: an epoch that ends has processed every minibatch of its range; an   *)
(* epoch that ends with approx_kl above a configured target_kl is the last *)
(* of its update; with no target_kl, or none exceeded at the end of an     *)
(* epoch, the update runs exactly update_epochs epochs.                    *)
NumStarts(a) == Cardinality({ st \in 0..(batch_size(a) - 1) : st % minibatch_size(a) = 0 })

KlStopsBetweenEpochs ==
    /\ (pc \in {"epoch", "log"} /\ epochs_run > 0) => Len(mb_log) = NumStarts(args)
    /\ kl_seen => pc \notin {"epoch", "minibatch"}
    /\ pc = "log" => epochs_run <= args.update_epochs
    /\ (pc = "log" /\ ~kl_seen) => epochs_run = args.update_epochs

(* an update stopped after the first of its epochs, which ran two          *)
(* minibatches                                                             *)
C9_Witness ==
    /\ pc = "log"
    /\ kl_seen
    /\ epochs_run = 1
    /\ args.update_epochs >= 2
    /\ Len(mb_log) >= 2

----------------------------------------------------------------------------
(* C11: every call that samples an action or evaluates a state without a   *)
(* prior action (the call of each rollout step, line 377, and the          *)
(* bootstrap call, line 400) passes an all-ones action field, and every    *)
(* re-evaluation of the update loop (line 434) passes the actions the      *)
(* rollout stored for the timesteps of the minibatch.                      *)

(* line 434: rollout_data[mb_inds], the rows the re-evaluation is given *)
MinibatchInput(rd, mb) == [t \in mb |-> Row(rd, t)]

SamplingCallsPassOnes ==
    /\ pc = "act" => Row(rollout_data, step).actions = Ones
    /\ pc = "advantages" => next_obs.actions = Ones
    /\ pc = "minibatch" =>
          \A t \in Steps(args) :
              MinibatchInput(rollout_data, Steps(args))[t].actions = env_log[t].actions

----------------------------------------------------------------------------
(* C12: the stored done flags mark the end of an episode one slot late.    *)
(* For 1 <= t < num_steps, done[t] is the flag the step of slot t - 1      *)
(* returned; done[0] is the flag of the last step of the previous horizon, *)
(* and false in the first horizon; the done flag the advantage pass uses   *)
(* for the bootstrap is the flag of the step of the last slot, whether or  *)
(* not a reset followed that step.                                         *)

(* slot 0 is stored and the log still holds the previous horizon *)
FirstSlotStored == pc \in {"act", "env_step"} /\ step = 0

LastSlot(a) == a.num_steps - 1

DoneOneSlotLate ==
    /\ HorizonCollected =>
          \A t \in Steps(args) : t >= 1 => rollout_data.done[t] = env_log[t - 1].done
    /\ FirstSlotStored =>
          rollout_data.done[0] = IF update = 1 THEN FALSE ELSE env_log[LastSlot(args)].done
    /\ pc = "advantages" =>
          /\ next_obs.done = env_log[LastSlot(args)].done
          /\ nextnonterminal(args, rollout_data, next_obs, LastSlot(args))
                = NonTerminal(env_log[LastSlot(args)].done)

(* the last step of the first horizon ended the episode and a reset        *)
(* followed: the second horizon's slot 0 holds done with the observation   *)
(* of the fresh episode                                                    *)
C12_Witness ==
    /\ FirstSlotStored
    /\ update = 2
    /\ args.num_steps >= 2
    /\ rollout_data.done[0]
    /\ ~rollout_data.done[1]
    /\ env_log[LastSlot(args)].done
    /\ rollout_data.observations[0] = [episode |-> 2, elapsed |-> 0]

====
